---- MODULE Spec2Model ----
(*************************************************************************)
(* The user module of the payment SDK: sixteen binding functions, each   *)
(* of which assembles a path and a query or body and hands them to the   *)
(* get or post operation of the api handle it is given.                  *)
(*                                                                       *)
(* JavaScript values are tagged records, so that undefined, strings and  *)
(* objects can be compared with one another.  An object is a mapping     *)
(* from property names to values.  The api handle is a recording         *)
(* transport: it appends every get / post it receives to `calls` and     *)
(* answers with a fresh deferred result whose state it chooses.          *)
(*************************************************************************)
EXTENDS Integers, Sequences, FiniteSets

VARIABLES
    heap,    \* the properties of the objects a function can be attached to
    calls,   \* the calls the recording transport has received, in order
    answer,  \* the deferred result the transport gave to its latest call
    ninv,    \* the number of invocations of binding functions so far
    inv      \* the most recent invocation and how it completed

vars == <<heap, calls, answer, ninv, inv>>

(***************************** bounds ************************************)
MaxInvocations == 2

(************************** JavaScript values ****************************)
Undefined == [t |-> "undefined"]
Str(s) == [t |-> "string", v |-> s]
Num(n) == [t |-> "number", n |-> n]
Obj(p) == [t |-> "object", props |-> p]
EmptyProps == [k \in {} |-> Undefined]
TypeError == [t |-> "TypeError"]

\* String conversion as a template literal performs it.
ToString(v) ==
    IF v.t = "string" THEN v.v
    ELSE IF v.t = "undefined" THEN "undefined"
    ELSE "[object Object]"

\* Reading a property of an object: an absent property reads as undefined.
GetProp(p, k) == IF k \in DOMAIN p THEN p[k] ELSE Undefined

(******************************* inputs **********************************)
Uris == {Str("https://x"), Str("https://y")}
UriArgs == Uris \cup {Undefined}
UserIds == {Str("u1"), Str("u2")}
Identifiers == {Str("a@b.com")}
Contexts == {Str("ctx")}
Passwords == {Str("pw")}
Jwts == {Str("jwt")}
Triggers == {Str("emailverification")}
Emails == {Undefined, Str("a@b.com")}
Properties == {Obj([name |-> Str("n")])}
Queries == {Obj([email |-> Str("a@b.com")])}
FullTexts == {Str("john")}
Criteria == {Obj([a |-> Num(1)]), Obj([a |-> Num(1), b |-> Num(1)])}
Filters == {Undefined, Obj([b |-> Num(2)])}
DeferredStates == {"resolved", "rejected"}

\* The objects a binding function can be invoked on: the module's exports
\* object, whose redirectUri the caller configures, and the api handle, which
\* carries a redirectUri of its own.  NoThis is an invocation with no receiver.
ObjectIds == {"module", "api"}
Configurable == {"module"}
ApiRedirectUri == Str("https://api")
NoThis == "none"
StrictMode == TRUE
BareThis == IF StrictMode THEN NoThis ELSE "global"
Receivers == ObjectIds \cup {BareThis}

(************************* recording transport ***************************)
Deferred(id, state) == [t |-> "deferred", id |-> id, state |-> state]

\* What the transport answers to its next call.
TransportResult(state) == Deferred(Len(calls) + 1, state)

Record(method, args) == Append(calls, [method |-> method, args |-> args])

(*************************** completions *********************************)
\* A function that caught a failed result and answered with a success.
ReturnCaught(v) == [v EXCEPT !.state = "resolved"]

\* `return <expression>`: the value of the expression is the function's value.
Return(v) == v

Call(method, args) == [kind |-> "call", method |-> method, args |-> args]
Throw(e) == [kind |-> "throw", error |-> e]

\* An initialiser that read the api handle's redirectUri, not the receiver's.
ThisRedirectUriOfApi(this) ==
    IF this = NoThis THEN Throw(TypeError)
    ELSE [kind |-> "value", value |-> GetProp(heap["api"], "redirectUri")]

\* this.redirectUri, the initialiser of the redirectUri parameter.
ThisRedirectUri(this) ==
    IF this = NoThis THEN Throw(TypeError)
    ELSE [kind |-> "value", value |-> GetProp(heap[this], "redirectUri")]

\* A parameter whose initialiser was evaluated whatever the argument.
DefaultParameterAlways(given, this) == ThisRedirectUri(this)

\* A parameter with an initialiser: the initialiser is evaluated when the
\* argument is undefined, and only then.
DefaultParameter(given, this) ==
    IF given = Undefined THEN ThisRedirectUri(this)
    ELSE [kind |-> "value", value |-> given]

\* One invocation of a binding function: `completion` is what evaluating the
\* function produced, a transport call or a throw before any call.
Invoke(fn, this, args, after, completion, state) ==
    /\ ninv < MaxInvocations
    /\ ninv' = ninv + 1
    /\ heap' = heap
    /\ IF completion.kind = "throw"
       THEN /\ UNCHANGED <<calls, answer>>
            /\ inv' = [fn |-> fn, this |-> this, args |-> args, after |-> after,
                       status |-> "threw", value |-> completion.error]
       ELSE /\ calls' = Record(completion.method, completion.args)
            /\ answer' = TransportResult(state)
            /\ inv' = [fn |-> fn, this |-> this, args |-> args, after |-> after,
                       status |-> "returned",
                       value |-> Return(TransportResult(state))]

(*************************** binding functions ***************************)
\* Functions with a wrong endpoint, a static default or a pruned query.
getCompletionLegacy(userId) == Call("get", <<Str("/user/" \o ToString(userId))>>)

signinCompletionStatic(this, identifier, redirectUri, context) ==
    Call("post", <<Str("/api/2/signin"),
                   Obj([identifier |-> identifier, redirectUri |-> redirectUri,
                        context |-> context])>>)

getMailHistoryCompletionPruned(id, email) ==
    Call("get", <<Str("/mail"),
                  Obj([k \in {"id"} \cup (IF email = Undefined THEN {} ELSE {"email"}) |->
                         IF k = "id" THEN id ELSE email])>>)

meCompletion == Call("get", <<Str("/me")>>)

me ==
    \E this \in Receivers, state \in DeferredStates :
        Invoke("me", this, <<>>, <<>>, meCompletion, state)

signinCompletion(this, identifier, redirectUri, context) ==
    LET r == DefaultParameter(redirectUri, this) IN
    IF r.kind = "throw" THEN r
    ELSE Call("post", <<Str("/api/2/signin"),
                        Obj([identifier |-> identifier, redirectUri |-> r.value,
                             context |-> context])>>)

signin ==
    \E this \in Receivers, identifier \in Identifiers, redirectUri \in UriArgs,
       context \in Contexts, state \in DeferredStates :
        Invoke("signin", this, <<identifier, redirectUri, context>>,
               <<identifier, redirectUri, context>>,
               signinCompletion(this, identifier, redirectUri, context), state)

userCompletion(properties) == Call("post", <<Str("/api/2/user"), properties>>)

user ==
    \E this \in Receivers, properties \in Properties, state \in DeferredStates :
        Invoke("user", this, <<properties>>, <<properties>>,
               userCompletion(properties), state)

signupCompletion(this, email, password, redirectUri) ==
    LET r == DefaultParameter(redirectUri, this) IN
    IF r.kind = "throw" THEN r
    ELSE Call("post", <<Str("/api/2/signup"),
                        Obj([email |-> email, password |-> password,
                             redirectUri |-> r.value])>>)

signup ==
    \E this \in Receivers, email \in Identifiers, password \in Passwords,
       redirectUri \in UriArgs, state \in DeferredStates :
        Invoke("signup", this, <<email, password, redirectUri>>,
               <<email, password, redirectUri>>,
               signupCompletion(this, email, password, redirectUri), state)

signupJwtCompletion(jwt) == Call("post", <<Str("/api/2/signup_jwt"), Obj([jwt |-> jwt])>>)

signupJwt ==
    \E this \in Receivers, jwt \in Jwts, state \in DeferredStates :
        Invoke("signupJwt", this, <<jwt>>, <<jwt>>, signupJwtCompletion(jwt), state)

getCompletion(userId) == Call("get", <<Str("/api/2/user/" \o ToString(userId))>>)

get ==
    \E this \in Receivers, userId \in UserIds, state \in DeferredStates :
        Invoke("get", this, <<userId>>, <<userId>>, getCompletion(userId), state)

updateCompletion(userId, properties) ==
    Call("post", <<Str("/api/2/user/" \o ToString(userId)), properties>>)

update ==
    \E this \in Receivers, userId \in UserIds, properties \in Properties,
       state \in DeferredStates :
        Invoke("update", this, <<userId, properties>>, <<userId, properties>>,
               updateCompletion(userId, properties), state)

\* A merge in which a property already on the target is kept.
RECURSIVE ObjectAssignFirstWins(_, _, _)
ObjectAssignFirstWins(store, target, sources) ==
    IF sources = <<>> THEN store
    ELSE LET s == store[Head(sources)]
             t == store[target].props
             merged == IF s.t = "object"
                       THEN [k \in DOMAIN t \cup DOMAIN s.props |->
                               IF k \in DOMAIN t THEN t[k] ELSE s.props[k]]
                       ELSE t
         IN ObjectAssignFirstWins([store EXCEPT ![target] = Obj(merged)], target,
                                  Tail(sources))

\* Object.assign(target, ...sources) on a store of objects held by reference:
\* every own property of every source that is an object is written to the
\* target, later sources after earlier ones.  The target is changed in place.
RECURSIVE ObjectAssign(_, _, _)
ObjectAssign(store, target, sources) ==
    IF sources = <<>> THEN store
    ELSE LET s == store[Head(sources)]
             t == store[target].props
             merged == IF s.t = "object"
                       THEN [k \in DOMAIN t \cup DOMAIN s.props |->
                               IF k \in DOMAIN s.props THEN s.props[k] ELSE t[k]]
                       ELSE t
         IN ObjectAssign([store EXCEPT ![target] = Obj(merged)], target, Tail(sources))

\* A merge into the criteria argument itself.
getAllTargetInPlace == "criteria"

\* The first argument of Object.assign in getAll: a new empty object.
getAllTarget == "fresh"

\* The objects getAll holds by reference while it runs.
getAllStore(criteria, filters) ==
    LET before == [fresh |-> Obj(EmptyProps), criteria |-> criteria, filters |-> filters]
    IN IF before[getAllTarget].t = "object"
       THEN ObjectAssign(before, getAllTarget, <<"criteria", "filters">>)
       ELSE before

getAllCompletion(criteria, filters) ==
    LET before == [fresh |-> Obj(EmptyProps), criteria |-> criteria, filters |-> filters]
    IN IF before[getAllTarget].t # "object" THEN Throw(TypeError)
       ELSE Call("get", <<Str("/api/2/users"),
                          getAllStore(criteria, filters)[getAllTarget]>>)

getAll ==
    \E this \in Receivers, criteria \in Criteria, filters \in Filters,
       state \in DeferredStates :
        Invoke("getAll", this, <<criteria, filters>>,
               <<getAllStore(criteria, filters).criteria,
                 getAllStore(criteria, filters).filters>>,
               getAllCompletion(criteria, filters), state)

searchCompletion(query) == Call("get", <<Str("/api/2/search/users"), query>>)

search ==
    \E this \in Receivers, query \in Queries, state \in DeferredStates :
        Invoke("search", this, <<query>>, <<query>>, searchCompletion(query), state)

searchFullTextCompletion(query) ==
    Call("get", <<Str("/api/2/search/users/" \o ToString(query))>>)

searchFullText ==
    \E this \in Receivers, query \in FullTexts, state \in DeferredStates :
        Invoke("searchFullText", this, <<query>>, <<query>>,
               searchFullTextCompletion(query), state)

triggerVerifyCompletion(this, userId, trigger, redirectUri) ==
    LET r == DefaultParameter(redirectUri, this) IN
    IF r.kind = "throw" THEN r
    ELSE Call("get", <<Str("/user/" \o ToString(userId) \o "/trigger/" \o ToString(trigger)),
                       Obj([redirectUri |-> r.value])>>)

triggerVerify ==
    \E this \in Receivers, userId \in UserIds, trigger \in Triggers,
       redirectUri \in UriArgs, state \in DeferredStates :
        Invoke("triggerVerify", this, <<userId, trigger, redirectUri>>,
               <<userId, trigger, redirectUri>>,
               triggerVerifyCompletion(this, userId, trigger, redirectUri), state)

getMailHistoryCompletion(id, email) ==
    Call("get", <<Str("/mail"), Obj([id |-> id, email |-> email])>>)

getMailHistory ==
    \E this \in Receivers, id \in UserIds, email \in Emails, state \in DeferredStates :
        Invoke("getMailHistory", this, <<id, email>>, <<id, email>>,
               getMailHistoryCompletion(id, email), state)

getLevelCompletion(userId) ==
    Call("get", <<Str("/user/" \o ToString(userId) \o "/level")>>)

getLevel ==
    \E this \in Receivers, userId \in UserIds, state \in DeferredStates :
        Invoke("getLevel", this, <<userId>>, <<userId>>, getLevelCompletion(userId), state)

isConnectedCompletion(userId) ==
    Call("get", <<Str("/user/" \o ToString(userId) \o "/connected")>>)

isConnected ==
    \E this \in Receivers, userId \in UserIds, state \in DeferredStates :
        Invoke("isConnected", this, <<userId>>, <<userId>>,
               isConnectedCompletion(userId), state)

getAllAgreementsCompletion(userId) ==
    Call("get", <<Str("/api/2/user/" \o ToString(userId) \o "/agreements")>>)

getAllAgreements ==
    \E this \in Receivers, userId \in UserIds, state \in DeferredStates :
        Invoke("getAllAgreements", this, <<userId>>, <<userId>>,
               getAllAgreementsCompletion(userId), state)

acceptAgreementsCompletion(userId) ==
    Call("post", <<Str("/user/" \o ToString(userId) \o "/agreements/accept")>>)

acceptAgreements ==
    \E this \in Receivers, userId \in UserIds, state \in DeferredStates :
        Invoke("acceptAgreements", this, <<userId>>, <<userId>>,
               acceptAgreementsCompletion(userId), state)

(*************************** the environment *****************************)
\* The caller assigns the redirectUri property of an object.
SetRedirectUri ==
    \E o \in Configurable, v \in Uris :
        /\ heap' = [heap EXCEPT ![o] = [k \in DOMAIN heap[o] \cup {"redirectUri"} |->
                                           IF k = "redirectUri" THEN v ELSE heap[o][k]]]
        /\ heap'[o] # heap[o]
        /\ UNCHANGED <<calls, answer, ninv, inv>>

Init ==
    /\ heap = [o \in ObjectIds |->
                 IF o = "api" THEN [redirectUri |-> ApiRedirectUri] ELSE EmptyProps]
    /\ calls = <<>>
    /\ answer = Undefined
    /\ ninv = 0
    /\ inv = [fn |-> "none", this |-> NoThis, args |-> <<>>, after |-> <<>>,
              status |-> "none", value |-> Undefined]

Next ==
    \/ SetRedirectUri
    \/ me
    \/ signin
    \/ user
    \/ signup
    \/ signupJwt
    \/ get
    \/ update
    \/ getAll
    \/ search
    \/ searchFullText
    \/ triggerVerify
    \/ getMailHistory
    \/ getLevel
    \/ isConnected
    \/ getAllAgreements
    \/ acceptAgreements

Spec == Init /\ [][Next]_vars

(************************** reading the record ***************************)
LastCall == calls[Len(calls)]
Invoked == ninv' = ninv + 1
Keys(v) == IF v.t = "object" THEN DOMAIN v.props ELSE {}

\* The functions with a redirectUri parameter, and the argument given for it.
UsesRedirectUri == {"signin", "signup", "triggerVerify"}
RedirectUriArg(i) == IF i.fn = "signin" THEN i.args[2] ELSE i.args[3]
SentRedirectUri(call) == call.args[2].props.redirectUri

(******************************* claims **********************************)
\* C1: every invocation of a binding function records exactly one transport
\* call, so the number of recorded calls equals the number of invocations.
C1_OneCallPerInvocation == Len(calls) = ninv

\* C2 as stated: signin with redirectUri undefined posts a body whose
\* redirectUri is the redirectUri of the api handle passed as first argument.
C2_SigninDefaultFromApi ==
    [][(Invoked /\ inv'.fn = "signin" /\ inv'.args[2] = Undefined
            /\ inv'.status = "returned")
        => SentRedirectUri(calls'[Len(calls')]) = GetProp(heap["api"], "redirectUri")]_vars

\* C2 amended: signin invoked on a receiver object with redirectUri undefined
\* posts to /api/2/signin a body whose redirectUri is the receiver's
\* redirectUri; it is the api handle's when the api handle is the receiver.
C2_SigninDefaultFromReceiver ==
    [][(Invoked /\ inv'.fn = "signin" /\ inv'.args[2] = Undefined
            /\ inv'.this \in ObjectIds)
        => /\ inv'.status = "returned"
           /\ calls' = Append(calls, calls'[Len(calls')])
           /\ calls'[Len(calls')].method = "post"
           /\ calls'[Len(calls')].args[1] = Str("/api/2/signin")
           /\ SentRedirectUri(calls'[Len(calls')]) = GetProp(heap[inv'.this], "redirectUri")]_vars

C2_Witness ==
    /\ inv.fn = "signin" /\ inv.args[2] = Undefined /\ inv.this = "api"
    /\ inv.status = "returned"
    /\ SentRedirectUri(LastCall) = ApiRedirectUri

\* C3: no invocation of a binding function throws, with or without a
\* receiver, with optional parameters supplied or omitted.
C3_NeverThrows == inv.status # "threw"

\* C4: signin, signup and triggerVerify invoked on a receiver with redirectUri
\* omitted send the receiver's redirectUri as it is at the moment of the call.
C4_DefaultReadAtCallTime ==
    [][(Invoked /\ inv'.fn \in UsesRedirectUri /\ RedirectUriArg(inv') = Undefined
            /\ inv'.this \in ObjectIds)
        => /\ inv'.status = "returned"
           /\ Len(calls') = Len(calls) + 1
           /\ SentRedirectUri(calls'[Len(calls')]) = GetProp(heap[inv'.this], "redirectUri")]_vars

\* Two calls that both went to the same endpoint, the receiver's redirectUri
\* changed in between: the earlier carries the old value, the later the new.
C4_Witness ==
    /\ Len(calls) = 2
    /\ inv.fn = "signup" /\ RedirectUriArg(inv) = Undefined /\ inv.this = "module"
    /\ calls[1].args[1] = calls[2].args[1]
    /\ SentRedirectUri(calls[1]) = Str("https://x")
    /\ SentRedirectUri(calls[2]) = Str("https://y")
    /\ GetProp(heap["module"], "redirectUri") = Str("https://y")

\* C5: an explicit redirectUri is the one the transport call carries, whatever
\* the receiver or the api handle stores, and whether or not there is a receiver.
C5_ExplicitRedirectUri ==
    (inv.fn \in UsesRedirectUri /\ RedirectUriArg(inv) # Undefined)
        => /\ inv.status = "returned"
           /\ LastCall.method = (IF inv.fn = "triggerVerify" THEN "get" ELSE "post")
           /\ SentRedirectUri(LastCall) = RedirectUriArg(inv)

C5_Witness ==
    /\ inv.fn = "triggerVerify" /\ inv.this = "api"
    /\ RedirectUriArg(inv) = Str("https://x")
    /\ inv.status = "returned"
    /\ SentRedirectUri(LastCall) = Str("https://x")
    /\ GetProp(heap["api"], "redirectUri") # Str("https://x")

\* C6: getAll issues a GET to /api/2/users whose query has the keys of criteria
\* and of filters, with the value from filters for a key both have.
C6_GetAllMerge ==
    inv.fn = "getAll"
        => /\ inv.status = "returned"
           /\ LastCall.method = "get"
           /\ Len(LastCall.args) = 2
           /\ LastCall.args[1] = Str("/api/2/users")
           /\ LastCall.args[2].t = "object"
           /\ DOMAIN LastCall.args[2].props = Keys(inv.args[1]) \cup Keys(inv.args[2])
           /\ \A k \in DOMAIN LastCall.args[2].props :
                LastCall.args[2].props[k] =
                    IF k \in Keys(inv.args[2]) THEN inv.args[2].props[k]
                    ELSE inv.args[1].props[k]

C6_Witness ==
    /\ inv.fn = "getAll"
    /\ inv.args = <<Obj([a |-> Num(1), b |-> Num(1)]), Obj([b |-> Num(2)])>>
    /\ LastCall.args[2] = Obj([a |-> Num(1), b |-> Num(2)])

\* C7: the value a binding function returns is the very deferred result the
\* transport gave to the call of that invocation, a failure included.
C7_Passthrough ==
    [][(Invoked /\ inv'.status = "returned")
        => /\ Len(calls') = Len(calls) + 1
           /\ answer'.id = Len(calls')
           /\ inv'.value = answer']_vars

C7_Witness ==
    /\ inv.fn = "update" /\ inv.status = "returned"
    /\ answer.state = "rejected"
    /\ inv.value = answer

\* C8: each function named issues the method and the path of its endpoint,
\* with the path parameters substituted as given.
C8_Expected(i) ==
    CASE i.fn = "me" -> [method |-> "get", path |-> "/me", bare |-> TRUE]
      [] i.fn = "signin" -> [method |-> "post", path |-> "/api/2/signin", bare |-> FALSE]
      [] i.fn = "signup" -> [method |-> "post", path |-> "/api/2/signup", bare |-> FALSE]
      [] i.fn = "get" ->
            [method |-> "get", path |-> "/api/2/user/" \o i.args[1].v, bare |-> TRUE]
      [] i.fn = "update" ->
            [method |-> "post", path |-> "/api/2/user/" \o i.args[1].v, bare |-> FALSE]
      [] i.fn = "triggerVerify" ->
            [method |-> "get",
             path |-> "/user/" \o i.args[1].v \o "/trigger/" \o i.args[2].v,
             bare |-> FALSE]
      [] i.fn = "getLevel" ->
            [method |-> "get", path |-> "/user/" \o i.args[1].v \o "/level", bare |-> TRUE]
      [] i.fn = "acceptAgreements" ->
            [method |-> "post", path |-> "/user/" \o i.args[1].v \o "/agreements/accept",
             bare |-> TRUE]

C8_Named ==
    {"me", "signin", "signup", "get", "update", "triggerVerify", "getLevel",
     "acceptAgreements"}

C8_MethodAndPath ==
    (inv.status = "returned" /\ inv.fn \in C8_Named)
        => /\ LastCall.method = C8_Expected(inv).method
           /\ LastCall.args[1] = Str(C8_Expected(inv).path)
           /\ C8_Expected(inv).bare => Len(LastCall.args) = 1

C8_Witness ==
    /\ inv.fn = "get" /\ inv.args = <<Str("u2")>> /\ inv.status = "returned"
    /\ LastCall = [method |-> "get", args |-> <<Str("/api/2/user/u2")>>]

\* C9: every declared parameter reaches the transport call in one slot, the
\* path, the query or the body, and a parameter that is undefined is still a
\* key of the query or body that holds it.
C9_Slots(i) ==
    CASE i.fn = "me" -> <<Str("/me")>>
      [] i.fn = "signin" ->
            <<Str("/api/2/signin"),
              Obj([identifier |-> i.args[1],
                   redirectUri |-> IF i.args[2] = Undefined
                                   THEN SentRedirectUri(LastCall) ELSE i.args[2],
                   context |-> i.args[3]])>>
      [] i.fn = "user" -> <<Str("/api/2/user"), i.args[1]>>
      [] i.fn = "signup" ->
            <<Str("/api/2/signup"),
              Obj([email |-> i.args[1], password |-> i.args[2],
                   redirectUri |-> IF i.args[3] = Undefined
                                   THEN SentRedirectUri(LastCall) ELSE i.args[3]])>>
      [] i.fn = "signupJwt" -> <<Str("/api/2/signup_jwt"), Obj([jwt |-> i.args[1]])>>
      [] i.fn = "get" -> <<Str("/api/2/user/" \o i.args[1].v)>>
      [] i.fn = "update" -> <<Str("/api/2/user/" \o i.args[1].v), i.args[2]>>
      [] i.fn = "getAll" ->
            <<Str("/api/2/users"),
              Obj([k \in Keys(i.args[1]) \cup Keys(i.args[2]) |->
                     LastCall.args[2].props[k]])>>
      [] i.fn = "search" -> <<Str("/api/2/search/users"), i.args[1]>>
      [] i.fn = "searchFullText" -> <<Str("/api/2/search/users/" \o i.args[1].v)>>
      [] i.fn = "triggerVerify" ->
            <<Str("/user/" \o i.args[1].v \o "/trigger/" \o i.args[2].v),
              Obj([redirectUri |-> IF i.args[3] = Undefined
                                   THEN SentRedirectUri(LastCall) ELSE i.args[3]])>>
      [] i.fn = "getMailHistory" ->
            <<Str("/mail"), Obj([id |-> i.args[1], email |-> i.args[2]])>>
      [] i.fn = "getLevel" -> <<Str("/user/" \o i.args[1].v \o "/level")>>
      [] i.fn = "isConnected" -> <<Str("/user/" \o i.args[1].v \o "/connected")>>
      [] i.fn = "getAllAgreements" ->
            <<Str("/api/2/user/" \o i.args[1].v \o "/agreements")>>
      [] i.fn = "acceptAgreements" ->
            <<Str("/user/" \o i.args[1].v \o "/agreements/accept")>>

C9_EveryParameterHasASlot ==
    inv.status = "returned"
        => /\ Len(LastCall.args) = Len(C9_Slots(inv))
           /\ Len(LastCall.args) = 2 => LastCall.args[2].t = "object"
           /\ LastCall.args = C9_Slots(inv)

C9_Witness ==
    /\ inv.fn = "getMailHistory" /\ inv.args = <<Str("u1"), Undefined>>
    /\ inv.status = "returned"
    /\ DOMAIN LastCall.args[2].props = {"id", "email"}
    /\ LastCall.args[2].props.email = Undefined

\* C10: an invocation changes neither the properties of the api handle or of
\* any other object, nor the arguments it is given; getAll leaves criteria
\* and filters as they were and sends a mapping of its own.
C10_NothingGivenIsChanged ==
    [][Invoked => /\ heap' = heap
                  /\ inv'.after = inv'.args]_vars

C10_Witness ==
    /\ inv.fn = "getAll" /\ inv.status = "returned"
    /\ inv.args = <<Obj([a |-> Num(1)]), Obj([b |-> Num(2)])>>
    /\ inv.after = inv.args
    /\ LastCall.args[2] = Obj([a |-> Num(1), b |-> Num(2)])
    /\ GetProp(heap["api"], "redirectUri") = ApiRedirectUri
====
